---- MODULE Spec2Model ----
(***************************************************************************)
(* Tile download / montage pipelines of charrus/nlsdownload.               *)
(*                                                                         *)
(* Five programs share one shape (generate jobs, fetch concurrently, wait, *)
(* assemble) and differ in the details that the properties below are about:*)
(*   "nls"     nls-download.py  worker processes, download/montage queues  *)
(*   "iif2"    iif2.py          asyncio consumers on a queue, temp dir     *)
(*   "xyz"     xyz.py           asyncio consumers on a queue, tiles/ dir   *)
(*   "geojson" geojson.py       asyncio consumers on a queue, maps/tiles   *)
(*   "xyz2"    xyz2.py          one fetch_tile coroutine per job, gather   *)
(* A job is identified by its position in generation order.                *)
(***************************************************************************)
EXTENDS Integers, Sequences, FiniteSets, TLC

VARIABLES
    variant,        \* which program is running
    run,            \* "first" or "second" run over the same job sequence
    files,          \* content of every job's destination file
    files0,         \* content of every destination file when the run began
    queue,          \* asyncio.Queue / download_queue: jobs not yet taken
    unfinished,     \* asyncio.Queue's count of items without task_done()
    montage_queue,  \* nls-download.py: tiles handed to main
    wpc,            \* position of every worker (consumer, process, coroutine)
    wjob,           \* the job a worker holds (0: none)
    retry,          \* the worker's retry counter
    resp,           \* the worker's last response
    hist,           \* per job: the GET results and write errors, in order
    sleeps,         \* per job: number of backoff sleeps taken
    done,           \* per job: marked finished (task_done, put, coroutine end)
    results,        \* xyz2.py: what gather() collected for every job
    mainpc,         \* position of main
    ai,             \* assembly: index of the next entry to process
    pasted,         \* jobs pasted into the montage, in paste order
    saved,          \* montage.save() has run
    grid,           \* job generation: the loop over the tile grid
    status          \* success test: the status code of the response (0: none)

vars == <<variant, run, files, files0, queue, unfinished, montage_queue, wpc,
          wjob, retry, resp, hist, sleeps, done, results, mainpc, ai, pasted,
          saved, grid, status>>

----------------------------------------------------------------------------
(* Bounds of the model *)

\* number of tiles of the grid
NumJobs == 3
\* number of consumers (QUEUE_SIZE, 16 in the source) and of worker
\* processes (NUM_WORKERS, 4 in the source), scaled down
NumWorkers == 2
\* largest canvas width and height of the job generation study
MaxDim == 4
\* largest nominal tile width and height (tiles[0] of info.json)
MaxTile == 3
\* the tile size written into the URL of nls-download.py (256 in the source),
\* scaled down with the canvas
UrlTileSize == 2
\* smallest and largest HTTP status code of the success test study
MinStatus == 100
MaxStatus == 599

----------------------------------------------------------------------------
(* Program constants *)

\* consumer: for retry in range(2)
RetryRange == 2
\* MaxRetry as if the loop were "while retry <= 3"
MaxRetry_OneMore == 2 + 1

\* fetch_tile: while retry <= 2
MaxRetry == 2

----------------------------------------------------------------------------
Jobs == 1..NumJobs
Workers == 1..NumWorkers

Variants == {"nls", "iif2", "xyz", "geojson", "xyz2"}
QueueVariants == {"iif2", "xyz", "geojson"}

\* one coroutine per job in xyz2.py, a fixed pool elsewhere
Tasks == IF variant = "xyz2" THEN Jobs ELSE Workers
AllTasks == Jobs \cup Workers

\* A destination file is "absent" (no file), "empty" (zero bytes), "old" (a
\* tile left by an earlier run), "body" (the body of a 200 response) or
\* "errbody" (the body of a response with another status).

\* a GET returns status 200, returns another status, or raises; the write
\* of a body may raise too (disk full), which hist records as "werr"
Responses == {"ok", "bad", "exc"}

\* number of GET requests issued for job j
Gets(j) == Cardinality({i \in DOMAIN hist[j] : hist[j][i] # "werr"})

\* Image.open succeeds on a tile image only
Decodable(c) == c \in {"old", "body"}

\* what the file holds after the response body has been written
BodyOf(r) == IF r = "ok" THEN "body" ELSE "errbody"

NoResult == [kind |-> "pending", job |-> 0]
TileResult(j) == [kind |-> "tile", job |-> j]
NoneResult == [kind |-> "None", job |-> 0]
ExcResult == [kind |-> "Exception", job |-> 0]

\* the temporary directory of iif2.py is created empty
InitContents == IF variant = "iif2" THEN {"absent"} ELSE {"absent", "empty", "old"}

\* the tile grid is not under study: the jobs are numbered in generation order
GridOff == [W |-> 0, H |-> 0, tw |-> 0, th |-> 0, x |-> 0, y |-> 0]

\* state of a run that starts with the destination files f
StartRun(f) ==
    /\ files' = f
    /\ files0' = f
    /\ queue' = IF variant = "xyz2" THEN <<>> ELSE [i \in Jobs |-> i]
    /\ unfinished' = IF variant \in QueueVariants THEN NumJobs ELSE 0
    /\ montage_queue' = <<>>
    /\ wpc' = [t \in Tasks |-> IF variant = "xyz2" THEN "start" ELSE "get"]
    /\ wjob' = [t \in Tasks |-> IF variant = "xyz2" THEN t ELSE 0]
    /\ retry' = [t \in Tasks |-> 0]
    /\ resp' = [t \in Tasks |-> "none"]
    /\ hist' = [j \in Jobs |-> <<>>]
    /\ sleeps' = [j \in Jobs |-> 0]
    /\ done' = [j \in Jobs |-> FALSE]
    /\ results' = [j \in Jobs |-> NoResult]
    /\ mainpc' = CASE variant = "nls" -> "collect"
                   [] variant = "xyz2" -> "start"
                   [] OTHER -> "join"
    /\ ai' = 1
    /\ pasted' = <<>>
    /\ saved' = FALSE

Init ==
    /\ variant \in Variants
    /\ grid = GridOff
    /\ status = 0
    /\ run = "first"
    /\ files \in [Jobs -> InitContents]
    /\ files0 = files
    /\ queue = IF variant = "xyz2" THEN <<>> ELSE [i \in Jobs |-> i]
    /\ unfinished = IF variant \in QueueVariants THEN NumJobs ELSE 0
    /\ montage_queue = <<>>
    /\ wpc = [t \in Tasks |-> IF variant = "xyz2" THEN "start" ELSE "get"]
    /\ wjob = [t \in Tasks |-> IF variant = "xyz2" THEN t ELSE 0]
    /\ retry = [t \in Tasks |-> 0]
    /\ resp = [t \in Tasks |-> "none"]
    /\ hist = [j \in Jobs |-> <<>>]
    /\ sleeps = [j \in Jobs |-> 0]
    /\ done = [j \in Jobs |-> FALSE]
    /\ results = [j \in Jobs |-> NoResult]
    /\ mainpc = CASE variant = "nls" -> "collect"
                  [] variant = "xyz2" -> "start"
                  [] OTHER -> "join"
    /\ ai = 1
    /\ pasted = <<>>
    /\ saved = FALSE

----------------------------------------------------------------------------
(* consumer: iif2.py, xyz.py (and the unused copy in xyz2.py), geojson.py *)

\* the job is not fetched: no test in iif2.py, tile["file"].exists() elsewhere
ConsumerSkips(c) == IF variant = "iif2" THEN FALSE ELSE c # "absent"

\* the response body is written: under "if r.status_code == 200" in iif2.py
\* and geojson.py, after that "if" in xyz.py
ConsumerWrites(r) == IF variant = "xyz" THEN TRUE ELSE r = "ok"

\* queue.task_done() for the job of worker w, which goes back to queue.get()
TaskDone(w) ==
    /\ unfinished' = unfinished - 1
    /\ done' = [done EXCEPT ![wjob[w]] = TRUE]
    /\ wpc' = [wpc EXCEPT ![w] = "get"]
    /\ wjob' = [wjob EXCEPT ![w] = 0]
    /\ retry' = [retry EXCEPT ![w] = 0]
    /\ resp' = [resp EXCEPT ![w] = "none"]

\* tile = await queue.get(), and the test that skips the fetch
consumer_get(w) ==
    /\ variant \in QueueVariants
    /\ wpc[w] = "get"
    /\ queue # <<>>
    /\ LET j == Head(queue) IN
        /\ queue' = Tail(queue)
        /\ IF ConsumerSkips(files[j])
             THEN /\ unfinished' = unfinished - 1
                  /\ done' = [done EXCEPT ![j] = TRUE]
                  /\ UNCHANGED <<wpc, wjob>>
             ELSE /\ wpc' = [wpc EXCEPT ![w] = "request"]
                  /\ wjob' = [wjob EXCEPT ![w] = j]
                  /\ UNCHANGED <<unfinished, done>>
    /\ UNCHANGED <<status, grid, variant, run, files, files0, montage_queue, retry, resp,
                   hist, sleeps, results, mainpc, ai, pasted, saved>>

\* r = await client.get(tile.get("url"))
consumer_request(w) ==
    /\ variant \in QueueVariants
    /\ wpc[w] = "request"
    /\ \E r \in Responses :
        /\ hist' = [hist EXCEPT ![wjob[w]] = Append(@, r)]
        /\ resp' = [resp EXCEPT ![w] = r]
        /\ wpc' = [wpc EXCEPT ![w] =
                     IF r = "exc" THEN "dead"
                     ELSE IF ConsumerWrites(r) THEN "open" ELSE "sleep"]
    /\ UNCHANGED <<status, grid, variant, run, files, files0, queue, unfinished,
                   montage_queue, wjob, retry, sleeps, done, results, mainpc,
                   ai, pasted, saved>>

\* async with aiofiles.open(tile["file"], mode="wb"): mode "wb" creates the
\* file or truncates it (main has created the directory)
consumer_open(w) ==
    /\ variant \in QueueVariants
    /\ wpc[w] = "open"
    /\ files' = [files EXCEPT ![wjob[w]] = "empty"]
    /\ wpc' = [wpc EXCEPT ![w] = "write"]
    /\ UNCHANGED <<status, grid, variant, run, files0, queue, unfinished, montage_queue,
                   wjob, retry, resp, hist, sleeps, done, results, mainpc, ai,
                   pasted, saved>>

\* await img.write(r.content); break; queue.task_done()
consumer_write(w) ==
    /\ variant \in QueueVariants
    /\ wpc[w] = "write"
    /\ \/ /\ files' = [files EXCEPT ![wjob[w]] = BodyOf(resp[w])]
          /\ TaskDone(w)
          /\ hist' = hist
       \/ /\ hist' = [hist EXCEPT ![wjob[w]] = Append(@, "werr")]
          /\ wpc' = [wpc EXCEPT ![w] = "dead"]
          /\ UNCHANGED <<files, unfinished, done, wjob, retry, resp>>
    /\ UNCHANGED <<status, grid, variant, run, files0, queue, montage_queue, sleeps,
                   results, mainpc, ai, pasted, saved>>

\* await asyncio.sleep(5); the next retry, or the end of the loop and
\* queue.task_done()
consumer_sleep(w) ==
    /\ variant \in QueueVariants
    /\ wpc[w] = "sleep"
    /\ sleeps' = [sleeps EXCEPT ![wjob[w]] = @ + 1]
    /\ IF retry[w] + 1 < RetryRange
         THEN /\ retry' = [retry EXCEPT ![w] = @ + 1]
              /\ wpc' = [wpc EXCEPT ![w] = "request"]
              /\ UNCHANGED <<unfinished, done, wjob, resp>>
         ELSE TaskDone(w)
    /\ UNCHANGED <<status, grid, variant, run, files, files0, queue, montage_queue, hist,
                   results, mainpc, ai, pasted, saved>>

consumer(w) ==
    \/ consumer_get(w)
    \/ consumer_request(w)
    \/ consumer_open(w)
    \/ consumer_write(w)
    \/ consumer_sleep(w)

----------------------------------------------------------------------------
(* main of the queue programs: iif2.py, xyz.py, geojson.py *)

\* the temporary directory of iif2.py is removed when main leaves its block
LeaveTmpdir(f) == IF variant = "iif2" THEN [j \in Jobs |-> "absent"] ELSE f

\* main_join as if join() waited for an empty queue only
main_join_EmptyQueue ==
    /\ variant \in QueueVariants
    /\ mainpc = "join"
    /\ queue = <<>>
    /\ mainpc' = "cancel"
    /\ UNCHANGED <<status, grid, variant, run, files, files0, queue, unfinished,
                   montage_queue, wpc, wjob, retry, resp, hist, sleeps, done,
                   results, ai, pasted, saved>>

\* await queue.join()
main_join ==
    /\ variant \in QueueVariants
    /\ mainpc = "join"
    /\ unfinished = 0
    /\ mainpc' = "cancel"
    /\ UNCHANGED <<status, grid, variant, run, files, files0, queue, unfinished,
                   montage_queue, wpc, wjob, retry, resp, hist, sleeps, done,
                   results, ai, pasted, saved>>

\* for task in tasks: task.cancel(); await asyncio.gather(*tasks, ...)
main_cancel ==
    /\ variant \in QueueVariants
    /\ mainpc = "cancel"
    /\ wpc' = [w \in Tasks |-> IF wpc[w] = "dead" THEN "dead" ELSE "cancelled"]
    /\ mainpc' = "assemble"
    /\ UNCHANGED <<status, grid, variant, run, files, files0, queue, unfinished,
                   montage_queue, wjob, retry, resp, hist, sleeps, done,
                   results, ai, pasted, saved>>

\* the loop catches what Image.open raises: try/except in xyz.py only
AssemblyCatches == variant = "xyz"

\* for tile in tiles: with Image.open(tile["file"]) as im: montage.paste(...)
main_paste ==
    /\ variant \in QueueVariants
    /\ mainpc = "assemble"
    /\ ai <= NumJobs
    /\ IF Decodable(files[ai])
         THEN /\ pasted' = Append(pasted, ai)
              /\ ai' = ai + 1
              /\ UNCHANGED <<mainpc, files>>
         ELSE IF AssemblyCatches
           THEN /\ ai' = ai + 1
                /\ UNCHANGED <<mainpc, files, pasted>>
           ELSE /\ mainpc' = "aborted"
                /\ files' = LeaveTmpdir(files)
                /\ UNCHANGED <<ai, pasted>>
    /\ UNCHANGED <<status, grid, variant, run, files0, queue, unfinished, montage_queue,
                   wpc, wjob, retry, resp, hist, sleeps, done, results, saved>>

\* montage.save(output_path)
main_save ==
    /\ variant \in QueueVariants
    /\ mainpc = "assemble"
    /\ ai > NumJobs
    /\ saved' = TRUE
    /\ mainpc' = "done"
    /\ files' = LeaveTmpdir(files)
    /\ UNCHANGED <<status, grid, variant, run, files0, queue, unfinished, montage_queue,
                   wpc, wjob, retry, resp, hist, sleeps, done, results, ai,
                   pasted>>

main ==
    \/ main_join
    \/ main_cancel
    \/ main_paste
    \/ main_save

----------------------------------------------------------------------------
(* fetch_tile, download_tiles and main of xyz2.py *)

\* FetchTileSkips as if fetch_tile had no test of the file (as in iif2.py)
FetchTileSkips_NoTest(c) == FALSE

\* tile["file"].exists() and tile["file"].stat().st_size > 0
FetchTileSkips(c) == c \notin {"absent", "empty"}

\* the coroutine of job j ends with value v, which gather() stores at j
\* FetchTileEnds as if the results were collected in completion order
\* (asyncio.as_completed) instead of by gather(), which keeps task order
FetchTileEnds_AsCompleted(j, v) ==
    /\ results' = [results EXCEPT
                     ![CHOOSE i \in Jobs :
                         /\ results[i].kind = "pending"
                         /\ \A k \in 1..(i - 1) : results[k].kind # "pending"]
                       = v]
    /\ done' = [done EXCEPT ![j] = TRUE]
    /\ wpc' = [wpc EXCEPT ![j] = "ended"]
    /\ resp' = [resp EXCEPT ![j] = "none"]

FetchTileEnds(j, v) ==
    /\ results' = [results EXCEPT ![j] = v]
    /\ done' = [done EXCEPT ![j] = TRUE]
    /\ wpc' = [wpc EXCEPT ![j] = "ended"]
    /\ resp' = [resp EXCEPT ![j] = "none"]

\* response = await session.get(tile.get("url")); retry += 1 on another status
fetch_tile_request(j) ==
    /\ variant = "xyz2"
    /\ wpc[j] = "request"
    /\ \E r \in Responses :
        /\ hist' = [hist EXCEPT ![j] = Append(@, r)]
        /\ CASE r = "exc" ->
                  /\ FetchTileEnds(j, ExcResult)
                  /\ retry' = retry
             [] r = "ok" ->
                  /\ wpc' = [wpc EXCEPT ![j] = "open"]
                  /\ resp' = [resp EXCEPT ![j] = r]
                  /\ UNCHANGED <<results, done, retry>>
             [] r = "bad" ->
                  /\ wpc' = [wpc EXCEPT ![j] = "sleep"]
                  /\ resp' = [resp EXCEPT ![j] = r]
                  /\ retry' = [retry EXCEPT ![j] = @ + 1]
                  /\ UNCHANGED <<results, done>>
    /\ UNCHANGED <<status, grid, variant, run, files, files0, queue, unfinished,
                   montage_queue, wjob, sleeps, mainpc, ai, pasted, saved>>

\* async with aiofiles.open(tile["file"], mode="wb"): mode "wb" creates the
\* file or truncates it (main has created the directory)
fetch_tile_open(j) ==
    /\ variant = "xyz2"
    /\ wpc[j] = "open"
    /\ files' = [files EXCEPT ![j] = "empty"]
    /\ wpc' = [wpc EXCEPT ![j] = "write"]
    /\ UNCHANGED <<status, grid, variant, run, files0, queue, unfinished, montage_queue,
                   wjob, retry, resp, hist, sleeps, done, results, mainpc, ai,
                   pasted, saved>>

\* await img_file.write(response.content); break; return tile
fetch_tile_write(j) ==
    /\ variant = "xyz2"
    /\ wpc[j] = "write"
    /\ \/ /\ files' = [files EXCEPT ![j] = BodyOf(resp[j])]
          /\ FetchTileEnds(j, TileResult(j))
          /\ hist' = hist
       \/ /\ hist' = [hist EXCEPT ![j] = Append(@, "werr")]
          /\ FetchTileEnds(j, ExcResult)
          /\ files' = files
    /\ UNCHANGED <<status, grid, variant, run, files0, queue, unfinished, montage_queue,
                   wjob, retry, sleeps, mainpc, ai, pasted, saved>>

\* await asyncio.sleep(5); then the test of the while loop, whose else
\* branch returns None
fetch_tile_sleep(j) ==
    /\ variant = "xyz2"
    /\ wpc[j] = "sleep"
    /\ sleeps' = [sleeps EXCEPT ![j] = @ + 1]
    /\ IF retry[j] <= MaxRetry
         THEN /\ wpc' = [wpc EXCEPT ![j] = "request"]
              /\ UNCHANGED <<results, done, resp>>
         ELSE FetchTileEnds(j, NoneResult)
    /\ UNCHANGED <<status, grid, variant, run, files, files0, queue, unfinished,
                   montage_queue, wjob, retry, hist, mainpc, ai, pasted,
                   saved>>

fetch_tile(j) ==
    \/ fetch_tile_request(j)
    \/ fetch_tile_open(j)
    \/ fetch_tile_write(j)
    \/ fetch_tile_sleep(j)

\* tasks.append(fetch_tile(session, tile)) for every tile, then gather():
\* the event loop runs every new coroutine up to its first await before it
\* handles any response, so each coroutine tests its file and either returns
\* its tile at once (skipped) or has its first GET under way
download_tiles_start ==
    /\ variant = "xyz2"
    /\ mainpc = "start"
    /\ mainpc' = "gather"
    /\ wpc' = [j \in Jobs |->
                 IF FetchTileSkips(files[j]) THEN "ended" ELSE "request"]
    /\ results' = [j \in Jobs |->
                     IF FetchTileSkips(files[j]) THEN TileResult(j)
                     ELSE NoResult]
    /\ done' = [j \in Jobs |-> FetchTileSkips(files[j])]
    /\ UNCHANGED <<status, grid, variant, run, files, files0, queue, unfinished,
                   montage_queue, wjob, retry, resp, hist, sleeps, ai,
                   pasted, saved>>

\* downloaded_tiles = await asyncio.gather(*tasks, return_exceptions=True)
download_tiles ==
    /\ variant = "xyz2"
    /\ mainpc = "gather"
    /\ \A j \in Jobs : wpc[j] = "ended"
    /\ mainpc' = "assemble"
    /\ UNCHANGED <<status, grid, variant, run, files, files0, queue, unfinished,
                   montage_queue, wpc, wjob, retry, resp, hist, sleeps, done,
                   results, ai, pasted, saved>>

\* for tile in tiles: if tile: try: Image.open(tile["file"]) ... paste
\* except Exception as e: print(f"Error processing {tile['file']}: {e}")
xyz2_paste ==
    /\ variant = "xyz2"
    /\ mainpc = "assemble"
    /\ ai <= NumJobs
    /\ LET tile == results[ai] IN
        CASE tile.kind = "None" ->
               /\ ai' = ai + 1
               /\ UNCHANGED <<mainpc, pasted>>
          [] tile.kind = "Exception" ->
               \* tile["file"] raises TypeError in the try block and again in
               \* the handler
               /\ mainpc' = "aborted"
               /\ UNCHANGED <<ai, pasted>>
          [] OTHER ->
               /\ ai' = ai + 1
               /\ mainpc' = mainpc
               /\ pasted' = IF Decodable(files[tile.job])
                              THEN Append(pasted, tile.job) ELSE pasted
    /\ UNCHANGED <<status, grid, variant, run, files, files0, queue, unfinished,
                   montage_queue, wpc, wjob, retry, resp, hist, sleeps, done,
                   results, saved>>

\* montage.save(output_path)
xyz2_save ==
    /\ variant = "xyz2"
    /\ mainpc = "assemble"
    /\ ai > NumJobs
    /\ saved' = TRUE
    /\ mainpc' = "done"
    /\ UNCHANGED <<status, grid, variant, run, files, files0, queue, unfinished,
                   montage_queue, wpc, wjob, retry, resp, hist, sleeps, done,
                   results, ai, pasted>>

xyz2_main ==
    \/ download_tiles_start
    \/ download_tiles
    \/ xyz2_paste
    \/ xyz2_save

----------------------------------------------------------------------------
(* worker and main of nls-download.py *)

\* the 'STOP' sentinel on download_queue
STOP == 0

\* for tile in iter(download_queue.get, 'STOP'):
\*     if not os.path.isfile(tile['file_name']):
worker_get(w) ==
    /\ variant = "nls"
    /\ wpc[w] = "get"
    /\ queue # <<>>
    /\ queue' = Tail(queue)
    /\ LET tile == Head(queue) IN
        IF tile = STOP
          THEN /\ wpc' = [wpc EXCEPT ![w] = "exited"]
               /\ wjob' = wjob
          ELSE /\ wjob' = [wjob EXCEPT ![w] = tile]
               /\ wpc' = [wpc EXCEPT ![w] =
                            IF files[tile] = "absent" THEN "request" ELSE "put"]
    /\ UNCHANGED <<status, grid, variant, run, files, files0, unfinished, montage_queue,
                   retry, resp, hist, sleeps, done, results, mainpc, ai,
                   pasted, saved>>

\* resp, tileimage = http.request(tile['url'], 'GET')
\* assert resp.status == 200
worker_request(w) ==
    /\ variant = "nls"
    /\ wpc[w] = "request"
    /\ \E r \in Responses :
        /\ hist' = [hist EXCEPT ![wjob[w]] = Append(@, r)]
        /\ resp' = [resp EXCEPT ![w] = r]
        /\ wpc' = [wpc EXCEPT ![w] = IF r = "ok" THEN "open" ELSE "dead"]
    /\ UNCHANGED <<status, grid, variant, run, files, files0, queue, unfinished,
                   montage_queue, wjob, retry, sleeps, done, results, mainpc,
                   ai, pasted, saved>>

\* with open(tile['file_name'], "wb") as image: mode "wb" creates the file
\* (the working directory)
worker_open(w) ==
    /\ variant = "nls"
    /\ wpc[w] = "open"
    /\ files' = [files EXCEPT ![wjob[w]] = "empty"]
    /\ wpc' = [wpc EXCEPT ![w] = "write"]
    /\ UNCHANGED <<status, grid, variant, run, files0, queue, unfinished, montage_queue,
                   wjob, retry, resp, hist, sleeps, done, results, mainpc, ai,
                   pasted, saved>>

\* image.write(tileimage)
worker_write(w) ==
    /\ variant = "nls"
    /\ wpc[w] = "write"
    /\ \/ /\ files' = [files EXCEPT ![wjob[w]] = BodyOf(resp[w])]
          /\ wpc' = [wpc EXCEPT ![w] = "put"]
          /\ hist' = hist
       \/ /\ hist' = [hist EXCEPT ![wjob[w]] = Append(@, "werr")]
          /\ wpc' = [wpc EXCEPT ![w] = "dead"]
          /\ files' = files
    /\ UNCHANGED <<status, grid, variant, run, files0, queue, unfinished, montage_queue,
                   wjob, retry, resp, sleeps, done, results, mainpc, ai,
                   pasted, saved>>

\* montage_queue.put(tile)
worker_put(w) ==
    /\ variant = "nls"
    /\ wpc[w] = "put"
    /\ montage_queue' = Append(montage_queue, wjob[w])
    /\ done' = [done EXCEPT ![wjob[w]] = TRUE]
    /\ wpc' = [wpc EXCEPT ![w] = "get"]
    /\ wjob' = [wjob EXCEPT ![w] = 0]
    /\ resp' = [resp EXCEPT ![w] = "none"]
    /\ UNCHANGED <<status, grid, variant, run, files, files0, queue, unfinished, retry,
                   hist, sleeps, results, mainpc, ai, pasted, saved>>

worker(w) ==
    \/ worker_get(w)
    \/ worker_request(w)
    \/ worker_open(w)
    \/ worker_write(w)
    \/ worker_put(w)

\* for _ in trange(total_tiles): tile = montage_queue.get()
\*     tile_im = Image.open(tile['file_name']); montage.paste(tile_im, ...)
nls_paste ==
    /\ variant = "nls"
    /\ mainpc = "collect"
    /\ ai <= NumJobs
    /\ montage_queue # <<>>
    /\ montage_queue' = Tail(montage_queue)
    /\ IF Decodable(files[Head(montage_queue)])
         THEN /\ pasted' = Append(pasted, Head(montage_queue))
              /\ ai' = ai + 1
              /\ mainpc' = mainpc
         ELSE /\ mainpc' = "aborted"
              /\ UNCHANGED <<ai, pasted>>
    /\ UNCHANGED <<status, grid, variant, run, files, files0, queue, unfinished, wpc, wjob,
                   retry, resp, hist, sleeps, done, results, saved>>

\* montage.save('{mapid}.jpg'.format(mapid=MAPID))
nls_save ==
    /\ variant = "nls"
    /\ mainpc = "collect"
    /\ ai > NumJobs
    /\ saved' = TRUE
    /\ mainpc' = "stop"
    /\ UNCHANGED <<status, grid, variant, run, files, files0, queue, unfinished,
                   montage_queue, wpc, wjob, retry, resp, hist, sleeps, done,
                   results, ai, pasted>>

\* for _ in range(NUM_WORKERS): download_queue.put('STOP')
nls_stop ==
    /\ variant = "nls"
    /\ mainpc = "stop"
    /\ queue' = queue \o [i \in Workers |-> STOP]
    /\ mainpc' = "done"
    /\ UNCHANGED <<status, grid, variant, run, files, files0, unfinished, montage_queue,
                   wpc, wjob, retry, resp, hist, sleeps, done, results, ai,
                   pasted, saved>>

nls_main ==
    \/ nls_paste
    \/ nls_save
    \/ nls_stop

----------------------------------------------------------------------------
(* A second run of the same program over the same jobs and directory. It is *)
(* taken when the first run left a complete cache: every destination file  *)
(* present and non-empty. A run over an incomplete cache is a first run    *)
(* whose files start "absent", "empty" or "old".                           *)

\* the process of the first run has ended
RunEnded ==
    /\ mainpc \in {"done", "aborted"}
    /\ variant = "nls" => \A w \in Workers : wpc[w] \in {"exited", "dead"}

\* every destination file is present and non-empty
CacheComplete(f) == \A j \in Jobs : f[j] \notin {"absent", "empty"}

next_run ==
    /\ run = "first"
    /\ RunEnded
    /\ CacheComplete(files)
    /\ run' = "second"
    /\ variant' = variant
    /\ grid' = grid
    /\ status' = status
    /\ StartRun(files)

----------------------------------------------------------------------------
Next ==
    \/ \E w \in Tasks : consumer_get(w)
    \/ \E w \in Tasks : consumer_request(w)
    \/ \E w \in Tasks : consumer_open(w)
    \/ \E w \in Tasks : consumer_write(w)
    \/ \E w \in Tasks : consumer_sleep(w)
    \/ main_join
    \/ main_cancel
    \/ main_paste
    \/ main_save
    \/ download_tiles_start
    \/ \E j \in Tasks : fetch_tile_request(j)
    \/ \E j \in Tasks : fetch_tile_open(j)
    \/ \E j \in Tasks : fetch_tile_write(j)
    \/ \E j \in Tasks : fetch_tile_sleep(j)
    \/ download_tiles
    \/ xyz2_paste
    \/ xyz2_save
    \/ \E w \in Tasks : worker_get(w)
    \/ \E w \in Tasks : worker_request(w)
    \/ \E w \in Tasks : worker_open(w)
    \/ \E w \in Tasks : worker_write(w)
    \/ \E w \in Tasks : worker_put(w)
    \/ nls_paste
    \/ nls_save
    \/ nls_stop
    \/ next_run

Spec == Init /\ [][Next]_vars

\* every step of task t (a consumer, a coroutine or a worker process)
TaskStep(t) ==
    /\ t \in Tasks
    /\ (consumer(t) \/ fetch_tile(t) \/ worker(t))

\* every step of main
MainStep == main \/ xyz2_main \/ nls_main

\* The event loop and the operating system run every task and main that can
\* take a step; nothing obliges the user to start a second run.
LiveSpec ==
    /\ Spec
    /\ \A t \in AllTasks : WF_vars(TaskStep(t))
    /\ WF_vars(MainStep)

----------------------------------------------------------------------------
(* Properties *)

\* main waits at the completion barrier: queue.join(), gather(), or the
\* montage_queue.get() loop that has not yet received total_tiles tiles
AtBarrier ==
    \/ mainpc \in {"join", "start", "gather"}
    \/ mainpc = "collect" /\ ai <= NumJobs

\* C1: Barrier liveness. Whatever the jobs' GETs and writes do (status 200,
\* another status, an exception), main eventually leaves the completion
\* barrier: queue.join() returns, and the montage_queue.get() loop of
\* nls-download.py receives all its tiles.
C1_BarrierLiveness == <>(~AtBarrier)

\* every GET of job j returned a status other than 200, and there was one
AllBad(j) == hist[j] # <<>> /\ \A i \in DOMAIN hist[j] : hist[j][i] = "bad"

\* task t is between taking a job and marking it finished
Fetching(t) == wpc[t] \in {"request", "open", "write", "sleep", "put"}

\* every job is marked finished and no fetch is under way
BarrierPassed ==
    /\ \A j \in Jobs : done[j]
    /\ \A t \in Tasks : ~Fetching(t)

Quiescent == ~ENABLED (MainStep \/ \E t \in Tasks : TaskStep(t))

\* job f got a failure status on every attempt, every other job a 200
OneFails(f) ==
    /\ AllBad(f)
    /\ \A k \in Jobs \ {f} : hist[k] = <<"ok">>

\* C3: Isolation (xyz2.py, nls-download.py). When one job's server fails on
\* every attempt and every other job's server succeeds, the run completes:
\* every other job's file is written and pasted, the montage is saved, and
\* the failing job alone is missing.
C3_Isolation ==
    \A f \in Jobs :
        (variant \in {"xyz2", "nls"} /\ OneFails(f) /\ Quiescent) =>
            /\ mainpc = "done"
            /\ saved
            /\ \A k \in Jobs \ {f} :
                  /\ done[k]
                  /\ files[k] = "body"
                  /\ \E i \in DOMAIN pasted : pasted[i] = k
            /\ \A i \in DOMAIN pasted : pasted[i] # f

\* C4: Retry bound of fetch_tile. A job is never fetched more than 3 times,
\* no GET follows a 200, a job that is not skipped is fetched at least once,
\* and the coroutine ends with the failure outcome (None) exactly when 3
\* GETs all returned a failure status.
C4_RetryBound ==
    variant = "xyz2" =>
        \A j \in Jobs :
            /\ Gets(j) <= 3
            /\ \A i \in DOMAIN hist[j] :
                  hist[j][i] = "ok" =>
                      \A k \in (i + 1)..Len(hist[j]) : hist[j][k] = "werr"
            /\ (wpc[j] = "ended" /\ files0[j] \in {"absent", "empty"})
                  => Gets(j) >= 1
            /\ (wpc[j] = "ended" /\ AllBad(j))
                  => (Gets(j) = 3 /\ results[j] = NoneResult)
            /\ results[j] = NoneResult => (AllBad(j) /\ Gets(j) = 3)

\* one job failed 3 times and ended None, another succeeded on attempt 2
C4_Witness ==
    /\ variant = "xyz2"
    /\ \E j, k \in Jobs :
          /\ wpc[j] = "ended"
          /\ hist[j] = <<"bad", "bad", "bad">>
          /\ results[j] = NoneResult
          /\ wpc[k] = "ended"
          /\ hist[k] = <<"bad", "ok">>
          /\ results[k] = TileResult(k)

\* C5: Per-job errors are data. The sequence download_tiles returns holds
\* no exception object, whatever a job's GET or write raised.
C5_ErrorsAreData ==
    variant = "xyz2" => \A j \in Jobs : results[j].kind # "Exception"

C7_OnlySuccessPersisted ==
    variant \in {"xyz", "xyz2"} =>
        \A j \in Jobs :
            /\ files[j] = "errbody" => files0[j] = "errbody"
            /\ (done[j] /\ AllBad(j)) => files[j] = files0[j]

\* C8: Concurrency bound. The number of jobs with a GET in flight or in
\* backoff never exceeds the configured number of workers.
C8_ConcurrencyBound ==
    Cardinality({t \in Tasks : wpc[t] \in {"request", "sleep"}}) <= NumWorkers

\* C9: Complete, identifiable result set. Once download_tiles has returned,
\* every entry of its result identifies the job it belongs to.
C9_IdentifiableResults ==
    (variant = "xyz2" /\ mainpc \notin {"start", "gather"}) =>
        \A j \in Jobs : results[j].job = j

\* C10: Assembly never aborts on a single tile (xyz2.py, iif2.py). Whatever
\* the fetches left behind, the assembly loop does not end in an exception.
C10_AssemblyNeverAborts ==
    variant \in {"xyz2", "iif2"} => mainpc # "aborted"

\* the terminal state of job j, in the words of the specification
Outcome(j) ==
    IF done[j] /\ hist[j] = <<>> THEN "Skipped"
    ELSE IF hist[j] # <<>> /\ hist[j][Len(hist[j])] = "ok" THEN "Succeeded"
    ELSE IF hist[j] # <<>> THEN "Failed"
    ELSE "Pending"

\* number of times job j was pasted
Pastes(j) == Cardinality({i \in DOMAIN pasted : pasted[i] = j})

\* C11: Assembly placement (xyz2.py, xyz.py). When main has ended, exactly
\* the jobs whose terminal state is Succeeded or Skipped have been pasted,
\* each exactly once, and no Failed job has been pasted.
C11_AssemblyPlacement ==
    (variant \in {"xyz2", "xyz"} /\ mainpc \in {"done", "aborted"}) =>
        \A j \in Jobs :
            Pastes(j) = IF Outcome(j) \in {"Succeeded", "Skipped"}
                          THEN 1 ELSE 0

\* sequence s of jobs is in generation order
InGenerationOrder(s) == \A i, k \in DOMAIN s : i < k => s[i] < s[k]

Cells == 1..(NumJobs + 1)

\* the cells montage.paste(im, (x, y)) writes for job j
Footprint(j, overlap) == IF overlap THEN {j, j + 1} ELSE {j}

\* the canvas after pasting the jobs of sequence s in that order: for every
\* cell the job whose pixels are on top, 0 for the background
RECURSIVE Paint(_, _)
Paint(s, overlap) ==
    IF s = <<>> THEN [c \in Cells |-> 0]
    ELSE LET below == Paint(SubSeq(s, 1, Len(s) - 1), overlap)
             j == s[Len(s)]
         IN  [c \in Cells |-> IF c \in Footprint(j, overlap) THEN j
                              ELSE below[c]]

\* the jobs of set S in generation order
RECURSIVE SortedSeq(_)
SortedSeq(S) ==
    IF S = {} THEN <<>>
    ELSE LET m == CHOOSE x \in S : \A y \in S : x <= y
         IN  <<m>> \o SortedSeq(S \ {m})

\* the canvas that the pasted tiles give whatever the order of completion:
\* the one obtained by pasting them in generation order
CanonicalCanvas(overlap) ==
    Paint(SortedSeq({pasted[i] : i \in DOMAIN pasted}), overlap)

----------------------------------------------------------------------------
(* Job generation of iif2.py and nls-download.py *)

Min(a, b) == IF a <= b THEN a ELSE b

\* the width or height a job requests for a tile at the given offset:
\* iif2.py clips with min(); the URL of nls-download.py says 256 whatever
\* tile_width, tile_height and the offset are
RequestedSize(nominal, canvas, offset) ==
    IF variant = "nls" THEN UrlTileSize ELSE Min(nominal, canvas - offset)

\* main is about to enter the loop over the grid of an image of size W x H
\* with nominal tiles of tw x th; nothing is queued and nothing has run
GridInit ==
    /\ variant \in {"iif2", "nls"}
    /\ grid \in {[W |-> w, H |-> h, tw |-> a, th |-> b, x |-> 0, y |-> 0] :
                   w \in 1..MaxDim, h \in 1..MaxDim,
                   a \in 1..MaxTile, b \in 1..MaxTile}
    /\ status = 0
    /\ mainpc = "generate"
    /\ queue = <<>>
    /\ unfinished = 0
    /\ run = "first"
    /\ files = <<>>
    /\ files0 = <<>>
    /\ montage_queue = <<>>
    /\ wpc = <<>>
    /\ wjob = <<>>
    /\ retry = <<>>
    /\ resp = <<>>
    /\ hist = <<>>
    /\ sleeps = <<>>
    /\ done = <<>>
    /\ results = <<>>
    /\ ai = 1
    /\ pasted = <<>>
    /\ saved = FALSE

\* for x in range(0, width, tile_width):
\*     for y in range(0, height, tile_height):
\*         ... queue.put_nowait(tile) / download_queue.put({...})
generate_job ==
    /\ mainpc = "generate"
    /\ grid.x < grid.W
    /\ queue' = Append(queue,
                  [x |-> grid.x, y |-> grid.y,
                   width |-> RequestedSize(grid.tw, grid.W, grid.x),
                   height |-> RequestedSize(grid.th, grid.H, grid.y)])
    /\ unfinished' = IF variant = "iif2" THEN unfinished + 1 ELSE unfinished
    /\ grid' = IF grid.y + grid.th < grid.H
                 THEN [grid EXCEPT !.y = @ + grid.th]
                 ELSE [grid EXCEPT !.x = @ + grid.tw, !.y = 0]
    /\ UNCHANGED <<status, variant, run, files, files0, montage_queue, wpc,
                   wjob, retry, resp, hist, sleeps, done, results, mainpc,
                   ai, pasted, saved>>

\* the outer loop has run out of columns
generate_end ==
    /\ mainpc = "generate"
    /\ grid.x >= grid.W
    /\ mainpc' = "generated"
    /\ UNCHANGED <<status, grid, variant, run, files, files0, queue, unfinished,
                   montage_queue, wpc, wjob, retry, resp, hist, sleeps, done,
                   results, ai, pasted, saved>>

GridNext ==
    \/ generate_job
    \/ generate_end

GridSpec == GridInit /\ [][GridNext]_vars

\* job t's footprint holds the pixel (cx, cy)
Covers(t, cx, cy) ==
    /\ t.x <= cx
    /\ cx < t.x + t.width
    /\ t.y <= cy
    /\ cy < t.y + t.height

\* C14: Coverage and clipping. Once the jobs are generated, every job's
\* offsets are multiples of the tile size inside the canvas, its requested
\* width is min(tw, W - x) and its height min(th, H - y), so that it ends
\* inside the canvas, and every pixel of the canvas lies in the footprint of
\* exactly one job.
C14_CoverageAndClipping ==
    mainpc = "generated" =>
        /\ \A i \in DOMAIN queue :
              LET t == queue[i] IN
                /\ t.x % grid.tw = 0 /\ t.x < grid.W
                /\ t.y % grid.th = 0 /\ t.y < grid.H
                /\ t.width = Min(grid.tw, grid.W - t.x)
                /\ t.height = Min(grid.th, grid.H - t.y)
                /\ t.x + t.width <= grid.W
                /\ t.y + t.height <= grid.H
        /\ \A cx \in 0..(grid.W - 1), cy \in 0..(grid.H - 1) :
              Cardinality({i \in DOMAIN queue : Covers(queue[i], cx, cy)}) = 1

----------------------------------------------------------------------------
(* Properties of the fetch *)

\* C15: Skip leaves the file alone. A job whose destination file is present
\* and non-empty when the run begins is never fetched and its file keeps
\* its content to the end of the run; and a destination file changes only
\* through the fetch of its own job.
C15_SkipLeavesFileAlone ==
    \A j \in Jobs :
        /\ files0[j] \notin {"absent", "empty"} =>
              (hist[j] = <<>> /\ files[j] = files0[j])
        /\ files[j] # files0[j] => Gets(j) >= 1

\* xyz2.py has ended a first run that skipped one tile left by an earlier
\* run and fetched and wrote another
C15_Witness ==
    /\ variant = "xyz2"
    /\ run = "first"
    /\ mainpc = "done"
    /\ \E j, k \in Jobs :
          /\ files0[j] = "old" /\ files[j] = "old" /\ results[j] = TileResult(j)
          /\ files0[k] = "absent" /\ files[k] = "body"

\* worker t has the destination file of its job open for writing
FileOpen(t) == wpc[t] = "write"

\* C16: One worker per job (queue programs and nls-download.py). No two
\* workers hold the same job or have the same destination file open, the
\* count of unfinished queue items falls by one for every finished job, and
\* when the program has come to rest every job has been taken and marked
\* finished (task_done / montage_queue.put) by its worker.
C16_OneWorkerPerJob ==
    variant \in QueueVariants \cup {"nls"} =>
        /\ \A v, w \in Tasks :
              (v # w /\ wjob[v] # 0) => wjob[v] # wjob[w]
        /\ \A v, w \in Tasks :
              (v # w /\ FileOpen(v) /\ FileOpen(w)) => wjob[v] # wjob[w]
        /\ variant \in QueueVariants =>
              unfinished = Cardinality({j \in Jobs : ~done[j]})
        /\ Quiescent => \A j \in Jobs : done[j]

\* C17: Backoff only between attempts. A fetch_tile coroutine that has
\* ended after k GETs has slept k - 1 times: it sleeps only when another
\* attempt follows, so a job that failed all 3 attempts slept exactly twice.
C17_BackoffBetweenAttempts ==
    variant = "xyz2" =>
        \A j \in Jobs :
            (wpc[j] = "ended" /\ Gets(j) >= 1) => sleeps[j] = Gets(j) - 1

\* the last entry of job j's history is a GET that raised
LastRaised(j) == hist[j] # <<>> /\ hist[j][Len(hist[j])] = "exc"

\* C18: Transport errors are retried like bad statuses (fetch_tile of
\* xyz2.py, consumer of geojson.py). After a GET that raised, with fewer
\* than 3 attempts made for the job, the worker still holds the job and is
\* backing off or about to issue another GET.
C18_TransportErrorsRetried ==
    variant \in {"xyz2", "geojson"} =>
        \A j \in Jobs :
            (LastRaised(j) /\ Gets(j) < 3) =>
                \E t \in Tasks : /\ wjob[t] = j
                                 /\ wpc[t] \in {"sleep", "request"}

\* C19: Retry count of the queue-based consumer (iif2.py, xyz.py,
\* geojson.py). A job is fetched at most 3 times; a finished job whose
\* first GET returned a failure status was fetched again; and a finished
\* job that failed once and then succeeded has its file written (until
\* main ends and iif2.py removes its temporary directory).
C19_ConsumerRetries ==
    variant \in QueueVariants =>
        \A j \in Jobs :
            /\ Gets(j) <= 3
            /\ (done[j] /\ hist[j] # <<>> /\ hist[j][1] = "bad")
                  => Gets(j) >= 2
            /\ (done[j] /\ hist[j] = <<"bad", "ok">>)
                  => (files[j] = "body" \/ mainpc \in {"done", "aborted"})

\* C20: Skip condition is existence and non-zero size (fetch_tile of
\* xyz2.py, consumer of geojson.py, worker of nls-download.py). A job whose
\* destination file is empty when the run begins is not skipped: once it is
\* finished it has been fetched, and if its last GET returned 200 the empty
\* file has been overwritten with the body.
C20_EmptyFileNotSkipped ==
    variant \in {"xyz2", "geojson", "nls"} =>
        \A j \in Jobs :
            (files0[j] = "empty" /\ done[j]) =>
                /\ Gets(j) >= 1
                /\ hist[j][Len(hist[j])] = "ok" => files[j] = "body"

\* the skip test that a later run of the same program applies to a file of
\* content c
SkippedByLaterRun(c) ==
    IF variant = "xyz2" THEN FetchTileSkips(c) ELSE ConsumerSkips(c)

\* C21: Atomic persistence (fetch_tile of xyz2.py, consumer of geojson.py).
\* Whatever state the run is interrupted in, and whatever write failed, a
\* destination file this run has changed is either the complete response
\* body or fails the skip test of a later run.
C21_AtomicPersistence ==
    variant \in {"xyz2", "geojson"} =>
        \A j \in Jobs :
            (files[j] # files0[j] /\ files[j] \notin {"absent", "body"})
                => ~SkippedByLaterRun(files[j])

----------------------------------------------------------------------------
(* The success test of fetch_tile (xyz2.py) and consumer (iif2.py) *)

StatusCodes == MinStatus..MaxStatus

\* IsSuccess as if every 2xx status counted as success
IsSuccess_Any2xx(s) == s \in 200..299

\* if response.status_code == 200: / if r.status_code == 200:
IsSuccess(s) == s = 200

\* the response as the fetch sees it: "ok" takes the write branch, "bad" the
\* retry branch
Classify(s) == IF IsSuccess(s) THEN "ok" ELSE "bad"

\* one worker holds one job whose file is absent; its GET is about to
\* return a response with some status code
StatusInit ==
    /\ variant \in {"xyz2", "iif2"}
    /\ status \in StatusCodes
    /\ grid = GridOff
    /\ run = "first"
    /\ files = <<"absent">>
    /\ files0 = <<"absent">>
    /\ queue = <<>>
    /\ unfinished = IF variant = "iif2" THEN 1 ELSE 0
    /\ montage_queue = <<>>
    /\ wpc = <<"request">>
    /\ wjob = <<1>>
    /\ retry = <<0>>
    /\ resp = <<"none">>
    /\ hist = <<<<>>>>
    /\ sleeps = <<0>>
    /\ done = <<FALSE>>
    /\ results = <<NoResult>>
    /\ mainpc = IF variant = "iif2" THEN "join" ELSE "gather"
    /\ ai = 1
    /\ pasted = <<>>
    /\ saved = FALSE

\* response = await session.get(...); the test of its status code
status_test ==
    /\ wpc[1] = "request"
    /\ resp' = <<Classify(status)>>
    /\ hist' = <<Append(hist[1], Classify(status))>>
    /\ wpc' = <<IF IsSuccess(status) THEN "open" ELSE "sleep">>
    /\ retry' = IF IsSuccess(status) \/ variant = "iif2" THEN retry
                ELSE <<retry[1] + 1>>
    /\ UNCHANGED <<status, grid, variant, run, files, files0, queue,
                   unfinished, montage_queue, wjob, sleeps, done, results,
                   mainpc, ai, pasted, saved>>

\* async with aiofiles.open(tile["file"], mode="wb") as img_file:
\*     await img_file.write(response.content)
status_write ==
    /\ wpc[1] = "open"
    /\ files' = <<BodyOf(resp[1])>>
    /\ wpc' = <<"written">>
    /\ UNCHANGED <<status, grid, variant, run, files0, queue, unfinished,
                   montage_queue, wjob, retry, resp, hist, sleeps, done,
                   results, mainpc, ai, pasted, saved>>

StatusNext ==
    \/ status_test
    \/ status_write

StatusSpec == StatusInit /\ [][StatusNext]_vars

\* the status test has sent the worker to the write branch
Persisting == wpc[1] \in {"open", "written"}

----------------------------------------------------------------------------
(* Shutdown *)

\* C23: Cancellation happens only at rest (queue programs). When main is
\* about to cancel the consumers, the queue is empty and every consumer is
\* blocked in queue.get(); none is in a GET, a backoff sleep or a file
\* write, and once the consumers are cancelled no destination file is left
\* truncated by this run.
C23_CancelAtRest ==
    variant \in QueueVariants =>
        /\ mainpc = "cancel" =>
              /\ queue = <<>>
              /\ \A w \in Tasks : wpc[w] = "get" /\ wjob[w] = 0
        /\ mainpc \in {"cancel", "assemble", "done", "aborted"} =>
              /\ \A w \in Tasks : ~Fetching(w)
              /\ \A j \in Jobs : files[j] = "empty" => files0[j] = "empty"

\* the consumers were cancelled after a run in which one job needed a
\* backoff and another was fetched and written
C23_Witness ==
    /\ variant \in QueueVariants
    /\ mainpc = "assemble"
    /\ \A w \in Tasks : wpc[w] = "cancelled"
    /\ \E j, k \in Jobs :
          /\ sleeps[j] >= 1
          /\ hist[k] = <<"ok">> /\ files[k] = "body"

\* every GET issued so far returned status 200
EveryRequestOk ==
    \A j \in Jobs : \A i \in DOMAIN hist[j] : hist[j][i] \in {"ok", "werr"}

\* C24: Paste follows write in nls-download.py. A tile on montage_queue or
\* already pasted has its file on disk, not open for writing by any worker;
\* no tile is pasted twice; and when every request has returned 200 and the
\* program has come to rest, all total_tiles tiles have been pasted.
C24_PasteFollowsWrite ==
    variant = "nls" =>
        /\ \A i \in DOMAIN montage_queue :
              LET j == montage_queue[i] IN
                /\ files[j] # "absent"
                /\ \A w \in Tasks :
                      wjob[w] = j => wpc[w] \notin {"open", "write"}
        /\ \A j \in Jobs : Pastes(j) <= 1
        /\ (EveryRequestOk /\ Quiescent) => Len(pasted) = NumJobs

\* number of 'STOP' sentinels on download_queue
Sentinels == Cardinality({i \in DOMAIN queue : queue[i] = STOP})

\* C25: Sentinel shutdown in nls-download.py. A sentinel is on
\* download_queue only after all tiles are pasted and the montage is saved;
\* no tile job stands behind a sentinel; every worker that has exited took
\* one of the NUM_WORKERS sentinels; and when every request has returned
\* 200 and the program has come to rest, every worker has exited and
\* download_queue is empty.
C25_SentinelShutdown ==
    variant = "nls" =>
        /\ Sentinels > 0 => (saved /\ Len(pasted) = NumJobs)
        /\ \A i, k \in DOMAIN queue :
              (i < k /\ queue[i] = STOP) => queue[k] = STOP
        /\ mainpc = "done" =>
              Sentinels + Cardinality({w \in Tasks : wpc[w] = "exited"})
                  = NumWorkers
        /\ (EveryRequestOk /\ Quiescent) =>
              /\ queue = <<>>
              /\ \A w \in Tasks : wpc[w] = "exited"

====
